---- MODULE Spec2Model ----
(***************************************************************************)
(* Model of the document text-extraction pipeline of SymptoScan-Backend    *)
(* (src/document_parser.py: AdvancedDocumentParser).                       *)
(*                                                                         *)
(* One behaviour is one call of parse_document.  Texts are sequences of    *)
(* tokens: a token is one character (" ", "a", "\n", "\t") or one literal  *)
(* of the code ("Table:", "--- Page ", ...).  Python's Optional[str] is a  *)
(* tagged record (None, Str(s)); the completion of a call is Return(v) or  *)
(* Raise.  What the collaborators (PyMuPDF, Tesseract, PyPDF2, the two     *)
(* remote services) answer is drawn from bounded sets when it is read.     *)
(***************************************************************************)
EXTENDS Integers, Sequences, FiniteSets, TLC

\* ------------------------------------------------------------------ bounds
MaxElems == 2       \* longest element list of the element service
MaxPages == 2       \* most pages of a document read by the local extractors
MaxScanPages == 4   \* most pages of a document read by the detector taken alone

\* ------------------------------------------------------- program constants
MaxAttempts == 3    \* stop_after_attempt(3)
MaxPolls == 30      \* for _ in range(30)
PollInterval == 10  \* asyncio.sleep(10)
WaitMin == 4        \* wait_exponential(min=4)
WaitMax == 10       \* wait_exponential(max=10)
WaitMultiplier == 1 \* wait_exponential(multiplier=1)
ScanPages == 3      \* range(min(3, len(doc)))
ScanCharLimit == 100 \* total_chars < 100

\* ------------------------------------------------------------------ values
None == [tag |-> "None"]
Str(s) == [tag |-> "str", val |-> s]
Return(v) == [kind |-> "return", val |-> v]
Raise == [kind |-> "raise", val |-> None]

\* asyncio.CancelledError raised at an await: a BaseException, no Exception
Cancelled == [kind |-> "cancelled", val |-> None]

\* Python truthiness of an Optional[str]: None and "" are falsy.
Truthy(v) == v.tag = "str" /\ v.val # << >>

\* dict.get(key, default) on a JSON object modelled as a record
Get(d, k, default) == IF k \in DOMAIN d THEN d[k] ELSE default

Whitespace == {" ", "\n", "\t"}

RECURSIVE SeqsUpTo(_, _)
SeqsUpTo(S, n) ==
  IF n = 0 THEN {<< >>}
  ELSE LET shorter == SeqsUpTo(S, n - 1)
       IN shorter \cup {Append(s, x) : s \in {t \in shorter : Len(t) = n - 1}, x \in S}

\* The texts a collaborator answers with: empty, blank, and text with
\* leading, trailing and inner whitespace.
Texts ==
  { << >>, <<" ">>, <<"a">>, <<" ", "a">>, <<"a", " ">>, <<"a", " ", "a">> }

\* str.strip(): drop leading and trailing whitespace, keep what is between
RECURSIVE LStrip(_)
LStrip(s) == IF s # << >> /\ Head(s) \in Whitespace THEN LStrip(Tail(s)) ELSE s

RECURSIVE RStrip(_)
RStrip(s) ==
  IF s # << >> /\ s[Len(s)] \in Whitespace THEN RStrip(SubSeq(s, 1, Len(s) - 1)) ELSE s

Strip(s) == RStrip(LStrip(s))

\* sep.join(parts)
RECURSIVE Join(_, _)
Join(sep, parts) ==
  IF parts = << >> THEN << >>
  ELSE IF Len(parts) = 1 THEN parts[1]
  ELSE parts[1] \o sep \o Join(sep, Tail(parts))

NL == <<"\n">>
BlankLine == <<"\n", "\n">>

\* ------------------------------------------------- _is_scanned_document
\* A page as PyMuPDF reads it for the detector: its text as runs of one
\* character (so that 100 characters stay small) and its image count.
Run(c, n) == [ch |-> c, n |-> n]

RECURSIVE LStripRuns(_)
LStripRuns(t) ==
  IF t # << >> /\ (Head(t).ch \in Whitespace \/ Head(t).n = 0)
  THEN LStripRuns(Tail(t)) ELSE t

RECURSIVE RStripRuns(_)
RStripRuns(t) ==
  IF t # << >> /\ (t[Len(t)].ch \in Whitespace \/ t[Len(t)].n = 0)
  THEN RStripRuns(SubSeq(t, 1, Len(t) - 1)) ELSE t

RECURSIVE RunsLen(_)
RunsLen(t) == IF t = << >> THEN 0 ELSE Head(t).n + RunsLen(Tail(t))

Min(a, b) == IF a < b THEN a ELSE b
Max(a, b) == IF a > b THEN a ELSE b

\* the loop of lines 72-78: the totals over pages 1..n
RECURSIVE ScanTotals(_, _)
ScanTotals(pages, n) ==
  IF n = 0 THEN [total_chars |-> 0, total_images |-> 0]
  ELSE LET prev == ScanTotals(pages, n - 1)
           page == pages[n]
       IN [total_chars |-> prev.total_chars + RunsLen(RStripRuns(LStripRuns(page.text))),
           total_images |-> prev.total_images + page.images]

\* mutant: the totals run over every page of the document
is_scanned_document_all_pages(scan) ==
  IF ~scan.ok THEN FALSE
  ELSE LET t == ScanTotals(scan.pages, Len(scan.pages))
       IN t.total_chars < ScanCharLimit /\ t.total_images > 0

\* mutant: "except Exception: return True"
is_scanned_document_failing_true(scan) ==
  IF ~scan.ok THEN TRUE
  ELSE LET t == ScanTotals(scan.pages, Min(ScanPages, Len(scan.pages)))
       IN t.total_chars < ScanCharLimit /\ t.total_images > 0

\* scan.ok = FALSE: fitz.open or a page read raised (except Exception: False)
is_scanned_document(scan) ==
  IF ~scan.ok THEN FALSE
  ELSE LET t == ScanTotals(scan.pages, Min(ScanPages, Len(scan.pages)))
       IN t.total_chars < ScanCharLimit /\ t.total_images > 0

\* ------------------------------------------------ _parse_with_unstructured
AllowedTypes == {"Title", "NarrativeText", "ListItem", "Table"}

\* the loop of lines 172-177
RECURSIVE TextParts(_, _, _)
TextParts(elements, i, text_parts) ==
  IF i > Len(elements) THEN text_parts
  ELSE LET element == elements[i]
           text == Strip(Get(element, "text", << >>))
       IN TextParts(elements, i + 1,
            IF Get(element, "type", "None") \in AllowedTypes /\ text # << >>
            THEN Append(text_parts, text) ELSE text_parts)

\* mutant: the join without "else None"
UnstructuredResultEmptyString(elements) ==
  Str(Join(BlankLine, TextParts(elements, 1, << >>)))

\* line 179: "\n\n".join(text_parts) if text_parts else None
UnstructuredResult(elements) ==
  LET text_parts == TextParts(elements, 1, << >>)
  IN IF text_parts # << >> THEN Str(Join(BlankLine, text_parts)) ELSE None

\* ---------------------------------------------------- _basic_text_extraction
\* lines 241-245: text += page.extract_text() + "\n"; return text.strip()
RECURSIVE BasicConcat(_)
BasicConcat(pages) ==
  IF pages = << >> THEN << >> ELSE Head(pages) \o NL \o BasicConcat(Tail(pages))

FailureString == <<"Failed to extract text from document: ", "<error>">>

\* A local extractor ends by returning, by raising, or by the tail call
\* "return await self.<callee>(file_content)" of its except clause.
TailCall(callee) == [kind |-> "call", val |-> None, callee |-> callee]

\* mutant: the except clause of lines 246-247 lets the error out
basic_text_extraction_raising(b) ==
  IF b.ok THEN Return(Str(Strip(BasicConcat(b.pages)))) ELSE Raise

\* mutant: "return text" without the strip of line 245
basic_text_extraction_untrimmed(b) ==
  IF b.ok THEN Return(Str(BasicConcat(b.pages)))
  ELSE Return(Str(FailureString))

\* b.ok = FALSE: PdfReader or extract_text raised
basic_text_extraction(b) ==
  IF b.ok THEN Return(Str(Strip(BasicConcat(b.pages))))
  ELSE Return(Str(FailureString))

\* ----------------------------------------------------- _extract_with_pymupdf
PageHeader(n) == <<"--- Page ", ToString(n), " ---">>

TabJoin(row) == Join(<<"\t">>, [i \in 1..Len(row) |-> row[i].val])

\* lines 216-222 for one table: the text appended for it, << >> when
\* table.extract() raised, the data is empty, or the join raised on a None
\* cell (all swallowed by the bare except)
TableBlock(table) ==
  IF ~table.ok \/ table.data = << >> THEN << >>
  ELSE LET rows == SelectSeq(table.data, LAMBDA row : row # << >>)
       IN IF \E i \in 1..Len(rows) : \E j \in 1..Len(rows[i]) : rows[i][j] = None
          THEN << >>
          ELSE <<"\n", "\n", "Table:", "\n">>
               \o Join(NL, [i \in 1..Len(rows) |-> TabJoin(rows[i])]) \o NL

RECURSIVE PageText(_, _, _)
PageText(text, tables, k) ==
  IF k > Len(tables) THEN text
  ELSE PageText(text \o TableBlock(tables[k]), tables, k + 1)

\* mutant: "if page.get_text().strip()" decides whether the page is kept
RECURSIVE MuPartsTextOnly(_, _, _)
MuPartsTextOnly(pages, page_num, text_parts) ==
  IF page_num > Len(pages) THEN text_parts
  ELSE LET text == PageText(pages[page_num].text, pages[page_num].tables, 1)
       IN MuPartsTextOnly(pages, page_num + 1,
            IF Strip(pages[page_num].text) # << >>
            THEN Append(text_parts, PageHeader(page_num) \o NL \o Strip(text))
            ELSE text_parts)

\* the loop of lines 207-225
RECURSIVE MuParts(_, _, _)
MuParts(pages, page_num, text_parts) ==
  IF page_num > Len(pages) THEN text_parts
  ELSE LET text == PageText(pages[page_num].text, pages[page_num].tables, 1)
       IN MuParts(pages, page_num + 1,
            IF Strip(text) # << >>
            THEN Append(text_parts, PageHeader(page_num) \o NL \o Strip(text))
            ELSE text_parts)

\* mutant: the except clause of lines 230-232 returns an empty text
extract_with_pymupdf_swallowing(m) ==
  IF m.ok THEN Return(Str(Join(BlankLine, MuParts(m.pages, 1, << >>))))
  ELSE Return(Str(<< >>))

\* mutant: without the inner try of lines 216-222 a table that fails takes
\* the whole extractor to its except clause
extract_with_pymupdf_no_inner_try(m) ==
  IF m.ok /\ \A i \in 1..Len(m.pages) : \A k \in 1..Len(m.pages[i].tables) :
               LET table == m.pages[i].tables[k]
               IN table.ok /\ \A r \in 1..Len(table.data) :
                                \A c \in 1..Len(table.data[r]) : table.data[r][c] # None
  THEN Return(Str(Join(BlankLine, MuParts(m.pages, 1, << >>))))
  ELSE TailCall("basic")

\* mutant: the except clause of lines 230-232 lets the error out
extract_with_pymupdf_raising(m) ==
  IF m.ok THEN Return(Str(Join(BlankLine, MuParts(m.pages, 1, << >>))))
  ELSE Raise

\* m.ok = FALSE: fitz.open, get_text or find_tables raised
extract_with_pymupdf(m) ==
  IF m.ok THEN Return(Str(Join(BlankLine, MuParts(m.pages, 1, << >>))))
  ELSE TailCall("basic")

\* --------------------------------------------------------- _extract_with_ocr
\* mutant: a section is numbered by its place among the sections
RECURSIVE OcrPartsNumberingSections(_, _, _)
OcrPartsNumberingSections(images, i, extracted_text) ==
  IF i > Len(images) THEN extracted_text
  ELSE LET text == images[i]
       IN OcrPartsNumberingSections(images, i + 1,
            IF Strip(text) # << >>
            THEN Append(extracted_text,
                        PageHeader(Len(extracted_text) + 1) \o NL \o Strip(text))
            ELSE extracted_text)

\* the loop of lines 189-193
RECURSIVE OcrParts(_, _, _)
OcrParts(images, i, extracted_text) ==
  IF i > Len(images) THEN extracted_text
  ELSE LET text == images[i]
       IN OcrParts(images, i + 1,
            IF Strip(text) # << >>
            THEN Append(extracted_text, PageHeader(i) \o NL \o Strip(text))
            ELSE extracted_text)

\* mutant: the except clause of lines 197-199 lets the error out
extract_with_ocr_propagating(o) ==
  IF o.ok THEN Return(Str(Join(BlankLine, OcrParts(o.pages, 1, << >>))))
  ELSE Raise

\* o.ok = FALSE: convert_from_bytes or image_to_string raised
extract_with_ocr(o) ==
  IF o.ok THEN Return(Str(Join(BlankLine, OcrParts(o.pages, 1, << >>))))
  ELSE TailCall("pymupdf")

\* --------------------------------------------------- _parse_with_llama_parse
\* lines 108-115: the upload.  u.ok = FALSE: the post, raise_for_status or
\* json() raised; otherwise u.body is the JSON object of the answer.
LlamaAfterUpload(u) ==
  IF ~u.ok THEN Raise
  ELSE IF Get(u.body, "id", 0) = 0 THEN Return(None)
  ELSE [kind |-> "poll", val |-> None]

\* a body that json() cannot read, or that is no JSON object
Malformed == [malformed |-> TRUE]

\* mutant: no break on a status code other than 200 and 202
LlamaAfterPollNoBreak(r) ==
  IF ~r.ok THEN Raise
  ELSE IF r.status_code = 200 /\ r.body = Malformed THEN Raise
  ELSE IF r.status_code = 200 /\ Get(r.body, "status", "None") = "SUCCESS"
       THEN Return(Str(Get(r.body, "text", << >>)))
       ELSE [kind |-> "continue", val |-> None]

\* mutant: a get that raised is caught and the loop goes on with the same job
LlamaAfterPollRetryingFailure(r) ==
  IF ~r.ok THEN [kind |-> "continue", val |-> None]
  ELSE IF r.status_code = 200
       THEN IF r.body = Malformed THEN Raise
            ELSE IF Get(r.body, "status", "None") = "SUCCESS"
            THEN Return(Str(Get(r.body, "text", << >>)))
            ELSE [kind |-> "continue", val |-> None]
       ELSE IF r.status_code # 202 THEN [kind |-> "break", val |-> None]
       ELSE [kind |-> "continue", val |-> None]

\* lines 123-130: one poll.  r.ok = FALSE: the get raised.  The body is read
\* (line 126) only under status code 200.
LlamaAfterPoll(r) ==
  IF ~r.ok THEN Raise
  ELSE IF r.status_code = 200
       THEN IF r.body = Malformed THEN Raise
            ELSE IF Get(r.body, "status", "None") = "SUCCESS"
            THEN Return(Str(Get(r.body, "text", << >>)))
            ELSE [kind |-> "continue", val |-> None]
       ELSE IF r.status_code # 202 THEN [kind |-> "break", val |-> None]
       ELSE [kind |-> "continue", val |-> None]

\* mutant: one round too many
LoopContinuesOffByOne(n) == n <= MaxPolls

\* line 120: range(30)
LoopContinues(n) == n < MaxPolls

\* ------------------------------------------------------------ tenacity @retry
\* mutant: a call that returned None is retried too
ShouldRetryOnNone(n, out) ==
  (out.kind = "raise" \/ out.val = None) /\ n < MaxAttempts

\* mutant: a cancelled attempt is retried like a failed one
ShouldRetryOnCancelled(n, out) ==
  out.kind \in {"raise", "cancelled"} /\ n < MaxAttempts

\* stop_after_attempt(3), retry on any exception (lines 88, 134)
ShouldRetry(n, out) == out.kind = "raise" /\ n < MaxAttempts

\* wait_exponential(multiplier=1, min=4, max=10) after attempt n
WaitExponential(n) == Max(WaitMin, Min(WaitMultiplier * 2 ^ (n - 1), WaitMax))

\* ------------------------------------------------------------ parse_document
\* mutant: the scanned branch of lines 35-37 is skipped
AfterClassifyNeverOcr(scanned) == "llama_gate"

\* line 35
AfterClassify(scanned) == IF scanned THEN "ocr" ELSE "llama_gate"

\* mutant: the key is not looked at
GateAlways(key, stage, otherwise) == stage

\* mutant: the test of the key is inverted
GateInverted(key, stage, otherwise) == IF key THEN otherwise ELSE stage

\* lines 40, 49: a stage runs only with its key
Gate(key, stage, otherwise) == IF key THEN stage ELSE otherwise

\* mutant: "if not result: return result"
ReturnsResultInverted(out) == out.kind = "return" /\ ~Truthy(out.val)

\* lines 41-46, 50-55: result = await ...; if result: return result;
\* except Exception: print(...)
ReturnsResult(out) == out.kind = "return" /\ Truthy(out.val)

\* mutant: without the inner try/except an exception of a remote stage reaches
\* the except clause of lines 60-63
AfterRemotePropagates(out, next) ==
  IF out.kind = "return" /\ Truthy(out.val) THEN "done"
  ELSE IF out.kind = "raise" THEN "basic" ELSE next

\* mutant: the next stage runs whatever the stage returned
AfterRemoteAlwaysNext(out, next) == next

\* where parse_document stands after a remote stage ended with out: a falsy
\* result and a caught exception both go on with the next stage
AfterRemote(out, next) == IF ReturnsResult(out) THEN "done" ELSE next

\* lines 45, 54, 60: "except Exception" catches no BaseException, so a
\* cancellation goes through parse_document to its caller
Uncaught(out) == out.kind = "cancelled"

\* mutant: the file is uploaded whether or not a URL was passed
RequestFormAlwaysFiles(url) == "files"

\* lines 144, 154: the request carries the URL or the file
RequestForm(url) == IF url THEN "url" ELSE "files"

\* ------------------------------------------------ what the collaborators answer
NotRead == [ok |-> FALSE, pages |-> << >>, read |-> FALSE]
NoResponse == [ok |-> FALSE, elements |-> << >>, read |-> FALSE]
NoPoll == [ok |-> FALSE, status_code |-> 0, body |-> [none |-> 0], read |-> FALSE]
Pending == [kind |-> "pending", val |-> None]
NoCall == [called |-> FALSE]
NoEndpoint == [op |-> "none"]

Failed == [ok |-> FALSE, pages |-> << >>]
Read(pages) == [ok |-> TRUE, pages |-> pages]

ScanTexts == { << >>, <<Run(" ", 1), Run("a", 99)>>, <<Run("a", 100)>> }
ScanPageSamples == [text : ScanTexts, images : {0, 1}]
ScanOutcomes(n) == {Failed} \cup {Read(p) : p \in SeqsUpTo(ScanPageSamples, n)}

OcrOutcomes == {Failed} \cup {Read(p) : p \in SeqsUpTo(Texts, MaxPages)}
BasicOutcomes == {Failed} \cup {Read(p) : p \in SeqsUpTo(Texts, MaxPages)}

Cell(s) == Str(s)
TableSamples ==
  { [ok |-> FALSE, data |-> << >>],
    [ok |-> TRUE, data |-> << >>],
    [ok |-> TRUE, data |-> << <<Cell(<<"a">>), Cell(<<"a">>)>>, << >>, <<Cell(<<"a">>)>> >>],
    [ok |-> TRUE, data |-> << <<Cell(<<"a">>), None>> >>] }
MuPageSamples ==
  { [text |-> << >>, tables |-> << >>],
    [text |-> <<" ", "a">>, tables |-> << >>],
    [text |-> << >>, tables |-> <<[ok |-> TRUE, data |-> << <<Cell(<<"a">>)>> >>]>>],
    [text |-> <<"a">>, tables |-> <<[ok |-> FALSE, data |-> << >>]>>] }
MuSamples == {Failed} \cup {Read(p) : p \in SeqsUpTo(MuPageSamples, MaxPages)}

UploadResponses ==
  { [ok |-> FALSE, body |-> [none |-> 0]],
    [ok |-> TRUE, body |-> [id |-> 1]],
    [ok |-> TRUE, body |-> [id |-> 0]],
    [ok |-> TRUE, body |-> [none |-> 0]] }

PollBodies ==
  {[status |-> "SUCCESS", text |-> t] : t \in Texts}
    \cup {[status |-> "SUCCESS"], [status |-> "PENDING"], [none |-> 0], Malformed}
PollResponses ==
  {[ok |-> FALSE, status_code |-> 0, body |-> [none |-> 0]]}
    \cup {[ok |-> TRUE, status_code |-> 200, body |-> b] : b \in PollBodies}
    \cup {[ok |-> TRUE, status_code |-> c, body |-> [none |-> 0]] : c \in {202, 404, 500}}

ElementTypes == AllowedTypes \cup {"Image"}
Elements ==
  {[type |-> ty, text |-> t] : ty \in ElementTypes, t \in Texts}
    \cup {[type |-> ty] : ty \in ElementTypes}
    \cup {[text |-> t] : t \in Texts}
ElementLists == SeqsUpTo(Elements, MaxElems)
ElementSamples ==
  { << >>,
    <<[type |-> "Image", text |-> <<"a">>]>>,
    <<[type |-> "Title", text |-> <<" ">>], [type |-> "Table"]>>,
    <<[type |-> "Title", text |-> <<" ", "a">>], [type |-> "Image", text |-> <<"a">>],
      [type |-> "ListItem", text |-> <<"a", " ", "a">>]>>,
    <<[text |-> <<"a">>], [type |-> "NarrativeText", text |-> <<"a", " ">>]>> }
Responses(lists) ==
  {NoResponse} \cup {[ok |-> TRUE, elements |-> l] : l \in lists}

\* lines 135-179: one attempt of _parse_with_unstructured.  resp.ok = FALSE:
\* the post, raise_for_status, json() or the reading of an element raised.
parse_with_unstructured(resp) ==
  IF resp.ok THEN Return(UnstructuredResult(resp.elements)) ELSE Raise

\* --------------------------------------------------------------------- state
VARIABLES
  pc,                    \* where the call of parse_document stands
  llama_parse_api_key,   \* TRUE when the key is set (line 19)
  unstructured_api_key,  \* TRUE when the key is set (line 20)
  file_url,              \* TRUE when a signed URL was passed
  scan,                  \* what the detector read, until it returns
  is_scanned,            \* line 33
  attempt,               \* tenacity's attempt number of the running remote call
  backoff,               \* the wait before the running attempt
  job,                   \* the job of the running attempt (0: none)
  polls,                 \* polls issued in the running attempt
  waited,                \* time slept in the running attempt's polling loop
  last_poll,             \* the last poll's answer in the running attempt
  attempt_out,           \* how the attempt (at the end: the call) ended
  un_response,           \* the element service's answer
  un_sent,               \* what the last request to the element service carried
  ocr_in, mu_in, basic_in, \* what the local extractors read
  ret,                   \* the value parse_document returned
  producer,              \* the stage whose text was returned
  escaped,               \* an exception left parse_document
  in_handler,            \* inside the except clause of lines 60-63
  calls,                 \* the stages invoked, in order
  contacted,             \* the remote services that received a request
  outcome,               \* how each remote stage's call ended (Pending: not run)
  first,                 \* what an earlier call on the same parser object did
  endpoint               \* the API operation that uses the parser, if any

config == <<llama_parse_api_key, unstructured_api_key, file_url>>
remote == <<attempt, backoff, job, polls, waited, last_poll, attempt_out>>
inputs == <<ocr_in, mu_in, basic_in>>
result == <<ret, producer, escaped, in_handler>>
caller == <<first, endpoint>>
vars == <<pc, config, scan, is_scanned, remote, un_response, un_sent, inputs, result,
          calls, contacted, outcome, caller>>

\* a call of parse_document about to start
InitCall ==
  /\ pc = "start"
  /\ llama_parse_api_key \in BOOLEAN
  /\ unstructured_api_key \in BOOLEAN
  /\ file_url \in BOOLEAN
  /\ scan = NotRead
  /\ is_scanned = FALSE
  /\ attempt = 0 /\ backoff = 0 /\ job = 0 /\ polls = 0 /\ waited = 0
  /\ last_poll = NoPoll
  /\ attempt_out = Pending
  /\ un_response = NoResponse
  /\ un_sent = "none"
  /\ ocr_in = NotRead /\ mu_in = NotRead /\ basic_in = NotRead
  /\ ret = None /\ producer = "none" /\ escaped = FALSE /\ in_handler = FALSE
  /\ calls = << >>
  /\ contacted = {}
  /\ outcome = [llama |-> Pending, unstructured |-> Pending]
  /\ first = NoCall

\* parse_document called on its own, by no operation of the API
Init == InitCall /\ endpoint = NoEndpoint

NoAttempt ==
  /\ attempt' = 0 /\ backoff' = 0 /\ job' = 0 /\ polls' = 0 /\ waited' = 0
  /\ last_poll' = NoPoll /\ attempt_out' = Pending

\* line 33: is_scanned = await self._is_scanned_document(file_content)
Detect(pool) ==
  /\ pc = "start"
  /\ \E s \in pool :
       /\ scan' = s
       /\ is_scanned' = is_scanned_document(s)
  /\ calls' = Append(calls, "scan")
  /\ pc' = "classified"
  /\ UNCHANGED <<config, caller, remote, un_response, un_sent, inputs, result, contacted, outcome>>

\* line 35: if is_scanned
Route ==
  /\ pc = "classified"
  /\ pc' = AfterClassify(is_scanned)
  /\ scan' = NotRead
  /\ UNCHANGED <<config, caller, is_scanned, remote, un_response, un_sent, inputs, result,
                 calls, contacted, outcome>>

\* How parse_document goes on when a local extractor it awaits ends with c.
Finish(stage, c) ==
  /\ calls' = Append(calls, stage)
  /\ IF c.kind = "return"
     THEN /\ pc' = "done" /\ ret' = c.val /\ producer' = stage
          /\ UNCHANGED <<escaped, in_handler>>
     ELSE IF c.kind = "call"
     THEN /\ pc' = c.callee
          /\ UNCHANGED <<ret, producer, escaped, in_handler>>
     ELSE IF in_handler
     THEN /\ pc' = "done" /\ escaped' = TRUE
          /\ UNCHANGED <<ret, producer, in_handler>>
     ELSE \* lines 60-63: except Exception -> _basic_text_extraction
          /\ pc' = "basic" /\ in_handler' = TRUE
          /\ UNCHANGED <<ret, producer, escaped>>
  /\ UNCHANGED <<config, caller, scan, is_scanned, remote, un_response, un_sent, contacted, outcome>>

\* line 37: return await self._extract_with_ocr(file_content)
Ocr(pool) ==
  /\ pc = "ocr"
  /\ \E o \in pool : ocr_in' = o /\ Finish("ocr", extract_with_ocr(o))
  /\ UNCHANGED <<mu_in, basic_in>>

\* lines 58, 199: await self._extract_with_pymupdf(file_content)
PyMuPDF(pool) ==
  /\ pc = "pymupdf"
  /\ \E m \in pool : mu_in' = m /\ Finish("pymupdf", extract_with_pymupdf(m))
  /\ UNCHANGED <<ocr_in, basic_in>>

\* lines 63, 232: await self._basic_text_extraction(file_content)
Basic(pool) ==
  /\ pc = "basic"
  /\ \E b \in pool : basic_in' = b /\ Finish("basic", basic_text_extraction(b))
  /\ UNCHANGED <<ocr_in, mu_in>>

\* line 40: if self.llama_parse_api_key
LlamaGate ==
  /\ pc = "llama_gate"
  /\ LET next == Gate(llama_parse_api_key, "llama_upload", "un_gate")
     IN /\ pc' = next
        /\ IF next = "llama_upload"
           THEN /\ attempt' = 1
                /\ calls' = Append(calls, "llama")
           ELSE UNCHANGED <<attempt, calls>>
  /\ UNCHANGED <<config, caller, scan, is_scanned, backoff, job, polls, waited, last_poll,
                 attempt_out, un_response, un_sent, inputs, result, contacted, outcome>>

\* lines 106-115: upload the document, read the job id
LlamaUpload ==
  /\ pc = "llama_upload"
  /\ contacted' = contacted \cup {"llama"}
  /\ \E u \in UploadResponses :
       LET c == LlamaAfterUpload(u)
       IN IF c.kind = "poll"
          THEN /\ pc' = "llama_loop"
               /\ job' = attempt
               /\ attempt_out' = Pending
          ELSE /\ pc' = "llama_attempt_done"
               /\ job' = 0
               /\ attempt_out' = c
  /\ polls' = 0 /\ waited' = 0 /\ last_poll' = NoPoll
  /\ UNCHANGED <<config, caller, scan, is_scanned, attempt, backoff, un_response, un_sent,
                 inputs, result, calls, outcome>>

\* lines 120-121: the next round of the loop starts with asyncio.sleep(10)
LlamaSleep ==
  /\ pc = "llama_loop"
  /\ LoopContinues(polls)
  /\ waited' = waited + PollInterval
  /\ pc' = "llama_poll"
  /\ UNCHANGED <<config, caller, scan, is_scanned, attempt, backoff, job, polls, last_poll,
                 attempt_out, un_response, un_sent, inputs, result, calls, contacted,
                 outcome>>

\* line 132: the loop is over, return None
LlamaExhausted ==
  /\ pc = "llama_loop"
  /\ ~LoopContinues(polls)
  /\ attempt_out' = Return(None)
  /\ pc' = "llama_attempt_done"
  /\ UNCHANGED <<config, caller, scan, is_scanned, attempt, backoff, job, polls, waited,
                 last_poll, un_response, un_sent, inputs, result, calls, contacted,
                 outcome>>

\* lines 123-130: ask for the job's result
LlamaPoll ==
  /\ pc = "llama_poll"
  /\ polls' = polls + 1
  /\ \E r \in PollResponses :
       LET c == LlamaAfterPoll(r)
       IN /\ last_poll' = r
          /\ IF c.kind = "continue"
             THEN pc' = "llama_loop" /\ attempt_out' = Pending
             ELSE IF c.kind = "break"
             THEN pc' = "llama_attempt_done" /\ attempt_out' = Return(None)
             ELSE pc' = "llama_attempt_done" /\ attempt_out' = c
  /\ UNCHANGED <<config, caller, scan, is_scanned, attempt, backoff, job, waited, un_response,
                 un_sent, inputs, result, calls, contacted, outcome>>

\* The task running the call is cancelled while the attempt waits in
\* asyncio.sleep (line 121) or for the answer of a poll already sent (line
\* 123): CancelledError is raised at that await and ends the attempt.
LlamaCancel ==
  /\ \/ pc = "llama_loop" /\ LoopContinues(polls) /\ polls' = polls
     \/ pc = "llama_poll" /\ polls' = polls + 1
  /\ attempt_out' = Cancelled
  /\ pc' = "llama_attempt_done"
  /\ UNCHANGED <<config, caller, scan, is_scanned, attempt, backoff, job, waited, last_poll,
                 un_response, un_sent, inputs, result, calls, contacted, outcome>>

\* tenacity around one attempt that ended with attempt_out: wait and call
\* again, or hand the result (after the last attempt: the exception) on
Retry(again, handed) ==
  /\ IF ShouldRetry(attempt, attempt_out)
     THEN /\ pc' = again
          /\ attempt' = attempt + 1
          /\ backoff' = WaitExponential(attempt)
          /\ job' = 0 /\ polls' = 0 /\ waited' = 0
          /\ last_poll' = NoPoll
          /\ attempt_out' = Pending
          /\ un_response' = NoResponse
     ELSE /\ pc' = handed
          /\ UNCHANGED <<remote, un_response>>
  /\ UNCHANGED <<config, caller, scan, is_scanned, un_sent, inputs, result, calls, contacted,
                 outcome>>

\* line 88: @retry on _parse_with_llama_parse
LlamaRetry == pc = "llama_attempt_done" /\ Retry("llama_upload", "llama_ret")

\* How parse_document goes on after the remote stage ended with attempt_out
\* (lines 42-46, 51-55): return a truthy result, otherwise go on.
Handle(stage, next) ==
  /\ pc' = IF Uncaught(attempt_out) THEN "done" ELSE AfterRemote(attempt_out, next)
  /\ escaped' = (escaped \/ Uncaught(attempt_out))
  /\ IF ReturnsResult(attempt_out)
     THEN ret' = attempt_out.val /\ producer' = stage
     ELSE UNCHANGED <<ret, producer>>
  /\ outcome' = [outcome EXCEPT ![stage] = attempt_out]
  /\ NoAttempt
  /\ un_response' = NoResponse
  /\ UNCHANGED <<config, caller, scan, is_scanned, un_sent, inputs, in_handler, calls, contacted>>

\* lines 42-46
LlamaHandle == pc = "llama_ret" /\ Handle("llama", "un_gate")

\* line 49: if self.unstructured_api_key
UnstructuredGate ==
  /\ pc = "un_gate"
  /\ LET next == Gate(unstructured_api_key, "un_request", "pymupdf")
     IN /\ pc' = next
        /\ IF next = "un_request"
           THEN /\ attempt' = 1
                /\ calls' = Append(calls, "unstructured")
           ELSE UNCHANGED <<attempt, calls>>
  /\ UNCHANGED <<config, caller, scan, is_scanned, backoff, job, polls, waited, last_poll,
                 attempt_out, un_response, un_sent, inputs, result, contacted, outcome>>

\* lines 137-179: one attempt of _parse_with_unstructured
UnstructuredRequest(pool) ==
  /\ pc = "un_request"
  /\ contacted' = contacted \cup {"unstructured"}
  /\ un_sent' = RequestForm(file_url)
  /\ \E resp \in pool :
       /\ un_response' = resp
       /\ attempt_out' = parse_with_unstructured(resp)
  /\ pc' = "un_attempt_done"
  /\ UNCHANGED <<config, caller, scan, is_scanned, attempt, backoff, job, polls, waited,
                 last_poll, inputs, result, calls, outcome>>

\* line 134: @retry on _parse_with_unstructured
UnstructuredRetry == pc = "un_attempt_done" /\ Retry("un_request", "un_ret")

\* lines 51-55
UnstructuredHandle == pc = "un_ret" /\ Handle("unstructured", "pymupdf")

Next ==
  \/ Detect(ScanOutcomes(MaxPages))
  \/ Route
  \/ Ocr(OcrOutcomes)
  \/ LlamaGate
  \/ LlamaUpload
  \/ LlamaSleep
  \/ LlamaExhausted
  \/ LlamaPoll
  \/ LlamaRetry
  \/ LlamaHandle
  \/ UnstructuredGate
  \/ UnstructuredRequest(Responses(ElementSamples))
  \/ UnstructuredRetry
  \/ UnstructuredHandle
  \/ PyMuPDF(MuSamples)
  \/ Basic(BasicOutcomes)

Spec == Init /\ [][Next]_vars

\* The event loop keeps running the one task of the call, and every awaited
\* request ends (an answer, or the client's 60 s timeout raising).
FairSpec == Spec /\ WF_vars(Next)

\* The call run by a task that may be cancelled while the layout parser polls.
NextCancel ==
  \/ Next
  \/ LlamaCancel

SpecCancel == Init /\ [][NextCancel]_vars

\* Two calls of parse_document, one after the other, on the one parser
\* object of the module (line 259) with the same arguments.  The locals of
\* the first call are gone with its frame; the object's fields (lines 19-21)
\* are assigned in __init__ only, so the second call finds them as they were.
CallRecord ==
  [called |-> TRUE, is_scanned |-> is_scanned, ocr_in |-> ocr_in, mu_in |-> mu_in,
   basic_in |-> basic_in, outcome |-> outcome, calls |-> calls,
   producer |-> producer, ret |-> ret]

NewFrame ==
  /\ pc' = "start"
  /\ scan' = NotRead
  /\ is_scanned' = FALSE
  /\ NoAttempt
  /\ un_response' = NoResponse
  /\ un_sent' = "none"
  /\ ocr_in' = NotRead /\ mu_in' = NotRead /\ basic_in' = NotRead
  /\ ret' = None /\ producer' = "none" /\ escaped' = FALSE /\ in_handler' = FALSE
  /\ calls' = << >>
  /\ contacted' = {}
  /\ outcome' = [llama |-> Pending, unstructured |-> Pending]

\* mutant: a parser object that drops the key of a service that failed
AgainWithoutFailedService ==
  /\ pc = "done" /\ first = NoCall
  /\ first' = CallRecord
  /\ NewFrame
  /\ llama_parse_api_key' = (llama_parse_api_key /\ outcome.llama # Raise)
  /\ UNCHANGED <<unstructured_api_key, file_url, endpoint>>

Again ==
  /\ pc = "done" /\ first = NoCall
  /\ first' = CallRecord
  /\ NewFrame
  /\ UNCHANGED <<config, endpoint>>

\* what the collaborators answer to the calls made twice
TwiceScans ==
  { Failed,
    Read(<<[text |-> << >>, images |-> 1]>>),
    Read(<<[text |-> <<Run("a", 100)>>, images |-> 1]>>) }
TwiceTexts == { Failed, Read(<< <<"a">> >>), Read(<< <<" ">>, <<"a", " ">> >>) }
TwiceMu ==
  { Failed,
    Read(<<[text |-> <<" ", "a">>, tables |-> << >>]>>),
    Read(<<[text |-> << >>, tables |-> <<[ok |-> TRUE, data |-> << <<Cell(<<"a">>)>> >>]>>]>>) }
TwiceElements == { << >>, <<[type |-> "Title", text |-> <<" ", "a">>]>> }

NextTwice ==
  \/ Detect(TwiceScans)
  \/ Route
  \/ Ocr(TwiceTexts)
  \/ LlamaGate
  \/ LlamaUpload
  \/ LlamaSleep
  \/ LlamaExhausted
  \/ LlamaPoll
  \/ LlamaRetry
  \/ LlamaHandle
  \/ UnstructuredGate
  \/ UnstructuredRequest(Responses(TwiceElements))
  \/ UnstructuredRetry
  \/ UnstructuredHandle
  \/ PyMuPDF(TwiceMu)
  \/ Basic(TwiceTexts)
  \/ Again

SpecTwice == Init /\ [][NextTwice]_vars

\* ----------------------------------------------- main.py: summarize_report
\* The value of a call of an "async def" function that is not awaited: a
\* coroutine object; the function's body has not run.
Coroutine(f) == [tag |-> "coroutine", val |-> f]

parser == <<pc, config, scan, is_scanned, remote, un_response, un_sent, inputs, result,
            calls, contacted, outcome>>

\* request.document_id is set or not; request.parsed_text is None or a text
Requests ==
  [op : {"summarize_report"}, at : {"begin"}, document_id : BOOLEAN,
   parsed_text : {None} \cup {Str(t) : t \in Texts}, pdf : {FALSE},
   text_to_analyze : {Str(<< >>)}, handed : {None}, status_code : {0}]

\* The operation is called; parse_document is not running.
InitSummarize == InitCall /\ ~file_url /\ endpoint \in Requests

\* lines 154-155: except Exception re-raises everything, the HTTPException
\* of lines 110, 119, 131 and 150 included, as status 500
SummarizeFails == endpoint' = [endpoint EXCEPT !.at = "responded", !.status_code = 500]

\* lines 104-113 and 127-131: the document row, or the text of the request
SummarizeLookup ==
  /\ endpoint.op = "summarize_report" /\ endpoint.at = "begin"
  /\ IF endpoint.document_id
     THEN \E found \in BOOLEAN, is_pdf \in BOOLEAN :
            IF found
            THEN endpoint' = [endpoint EXCEPT !.at = "download", !.pdf = is_pdf]
            ELSE SummarizeFails
     ELSE IF Truthy(endpoint.parsed_text)
     THEN endpoint' = [endpoint EXCEPT !.at = "summarize",
                                       !.text_to_analyze = endpoint.parsed_text]
     ELSE SummarizeFails
  /\ UNCHANGED <<parser, first>>

\* lines 116-119: download the file from storage
SummarizeDownload ==
  /\ endpoint.op = "summarize_report" /\ endpoint.at = "download"
  /\ \E ok \in BOOLEAN :
       IF ok THEN endpoint' = [endpoint EXCEPT !.at = "extract"] ELSE SummarizeFails
  /\ UNCHANGED <<parser, first>>

\* lines 122-125: text_to_analyze = pdf_parser.parse_pdf(file_response),
\* written without await, or the bytes decoded as UTF-8
SummarizeExtract ==
  /\ endpoint.op = "summarize_report" /\ endpoint.at = "extract"
  /\ IF endpoint.pdf
     THEN endpoint' = [endpoint EXCEPT !.at = "summarize",
                                       !.text_to_analyze = Coroutine("parse_pdf")]
     ELSE \E decoded \in {None} \cup {Str(t) : t \in Texts} :
            IF decoded = None THEN SummarizeFails
            ELSE endpoint' = [endpoint EXCEPT !.at = "summarize",
                                              !.text_to_analyze = decoded]
  /\ UNCHANGED <<parser, first>>

\* line 134: summary_data = await llm_service.summarize_report(text_to_analyze)
SummarizeLLM ==
  /\ endpoint.op = "summarize_report" /\ endpoint.at = "summarize"
  /\ \E ok \in BOOLEAN :
       endpoint' = [endpoint EXCEPT !.handed = endpoint.text_to_analyze,
                                    !.at = IF ok THEN "save" ELSE "responded",
                                    !.status_code = IF ok THEN 0 ELSE 500]
  /\ UNCHANGED <<parser, first>>

\* lines 137-152: save the summary and answer
SummarizeSave ==
  /\ endpoint.op = "summarize_report" /\ endpoint.at = "save"
  /\ \E ok \in BOOLEAN :
       IF ok THEN endpoint' = [endpoint EXCEPT !.at = "responded", !.status_code = 200]
       ELSE SummarizeFails
  /\ UNCHANGED <<parser, first>>

NextSummarize ==
  \/ SummarizeLookup
  \/ SummarizeDownload
  \/ SummarizeExtract
  \/ SummarizeLLM
  \/ SummarizeSave

SpecSummarize == InitSummarize /\ [][NextSummarize]_vars

\* upload_report (main.py): the content types a request may carry, None when
\* the part has no Content-Type, as the tokens a prefix test tells apart.
ContentTypes ==
  {None, Str(<< >>), Str(<<"application/pdf">>), Str(<<"application/pdf", "x">>),
   Str(<<"image/", "png">>), Str(<<"text/", "plain">>),
   Str(<<"application/", "zip">>), Str(<<"video/", "mp4">>)}

\* line 51: str.startswith with a tuple of prefixes
StartsWith(s, prefixes) == Len(s) > 0 /\ s[1] \in prefixes

\* line 51: the file type is accepted
ValidType(content_type) ==
  /\ Truthy(content_type)
  /\ StartsWith(content_type.val, {"application/pdf", "image/", "text/"})

\* line 59: the text after the last dot of the file name, "pdf" without a dot
FileExtension(filename) ==
  IF \E k \in 1..Len(filename) : filename[k] = "."
  THEN LET last == CHOOSE k \in 1..Len(filename) :
                      /\ filename[k] = "."
                      /\ \A j \in (k + 1)..Len(filename) : filename[j] # "."
       IN SubSeq(filename, last + 1, Len(filename))
  ELSE <<"pdf">>

Filenames == {<<"r">>, <<"r", ".", "pdf">>, <<"r", ".", "v2", ".", "png">>}
UserIds == {"u1", "u2"}

UploadRequests ==
  [op : {"upload_report"}, at : {"begin"}, user_id : UserIds,
   content_type : ContentTypes, filename : Filenames,
   unique_filename : {<< >>}, uploaded : {FALSE}, recorded : {FALSE},
   raised : {0}, status_code : {0}]

\* The operation is called; parse_document is not running.
InitUpload == InitCall /\ ~file_url /\ endpoint \in UploadRequests

\* lines 94-95: except Exception catches whatever the body raised, the
\* HTTPException of lines 52, 71 and 86 included (HTTPException is an
\* Exception), and raises HTTPException(500); raised keeps the status the
\* body raised with, 0 for an exception that is no HTTPException
UploadFails(status) ==
  endpoint' = [endpoint EXCEPT !.at = "responded", !.raised = status,
                               !.status_code = 500]

\* lines 51-52: validate the file type
UploadValidate ==
  /\ endpoint.op = "upload_report" /\ endpoint.at = "begin"
  /\ IF ValidType(endpoint.content_type)
     THEN endpoint' = [endpoint EXCEPT !.at = "read"]
     ELSE UploadFails(400)
  /\ UNCHANGED <<parser, first>>

\* lines 55-60: read the file, build the storage path
UploadRead ==
  /\ endpoint.op = "upload_report" /\ endpoint.at = "read"
  /\ \E read \in BOOLEAN :
       IF read
       THEN endpoint' = [endpoint EXCEPT
              !.at = "store",
              !.unique_filename = <<endpoint.user_id, "/", "uuid", ".">>
                                    \o FileExtension(endpoint.filename)]
       ELSE UploadFails(0)
  /\ UNCHANGED <<parser, first>>

\* lines 63-71: upload to storage
UploadStore ==
  /\ endpoint.op = "upload_report" /\ endpoint.at = "store"
  /\ \E storage_response \in {"stored", "error", "raises"} :
       IF storage_response = "stored"
       THEN endpoint' = [endpoint EXCEPT !.at = "record", !.uploaded = TRUE]
       ELSE UploadFails(IF storage_response = "error" THEN 500 ELSE 0)
  /\ UNCHANGED <<parser, first>>

\* lines 74-92: insert the document record, answer
UploadRecord ==
  /\ endpoint.op = "upload_report" /\ endpoint.at = "record"
  /\ \E db_response \in {"inserted", "error", "raises"} :
       IF db_response = "inserted"
       THEN endpoint' = [endpoint EXCEPT !.at = "responded", !.recorded = TRUE,
                                         !.status_code = 200]
       ELSE UploadFails(IF db_response = "error" THEN 500 ELSE 0)
  /\ UNCHANGED <<parser, first>>

NextUpload ==
  \/ UploadValidate
  \/ UploadRead
  \/ UploadStore
  \/ UploadRecord

SpecUpload == InitUpload /\ [][NextUpload]_vars

\* The structural extractor taken alone: a non-scanned document, no key,
\* pages with blank or non-blank text and with tables that are read, empty,
\* failing in extract() or holding a None cell, alone and among others.
OneCell == [ok |-> TRUE, data |-> << <<Cell(<<"a">>)>> >>]
ThreeRows ==
  [ok |-> TRUE, data |-> << <<Cell(<<"a">>), Cell(<<"a">>)>>, << >>, <<Cell(<<"a">>)>> >>]
ExtractRaises == [ok |-> FALSE, data |-> << >>]
NoData == [ok |-> TRUE, data |-> << >>]
NoneCell == [ok |-> TRUE, data |-> << <<Cell(<<"a">>), None>> >>]
TableLists ==
  { << >>, <<OneCell>>, <<ThreeRows>>, <<ExtractRaises>>, <<NoData>>, <<NoneCell>>,
    <<OneCell, ExtractRaises>>, <<ExtractRaises, OneCell>>, <<ThreeRows, OneCell>>,
    <<OneCell, NoneCell, ThreeRows>>, <<ExtractRaises, NoneCell>> }
MuPages == [text : { << >>, <<" ">>, <<"a", " ">> }, tables : TableLists]
MuOutcomes(n) == {Failed} \cup {Read(p) : p \in SeqsUpTo(MuPages, n)}

InitMu ==
  /\ pc = "pymupdf"
  /\ llama_parse_api_key = FALSE
  /\ unstructured_api_key = FALSE
  /\ file_url \in BOOLEAN
  /\ scan = NotRead
  /\ is_scanned = FALSE
  /\ attempt = 0 /\ backoff = 0 /\ job = 0 /\ polls = 0 /\ waited = 0
  /\ last_poll = NoPoll /\ attempt_out = Pending
  /\ un_response = NoResponse /\ un_sent = "none"
  /\ ocr_in = NotRead /\ mu_in = NotRead /\ basic_in = NotRead
  /\ ret = None /\ producer = "none" /\ escaped = FALSE /\ in_handler = FALSE
  /\ calls = <<"scan">>
  /\ contacted = {}
  /\ outcome = [llama |-> Pending, unstructured |-> Pending]
  /\ first = NoCall /\ endpoint = NoEndpoint

NextMu ==
  \/ PyMuPDF(MuOutcomes(MaxPages))
  \/ Basic(BasicOutcomes)

SpecMu == InitMu /\ [][NextMu]_vars

\* The element parser taken alone: a non-scanned document, no layout key,
\* the element service answering with any list of up to MaxElems elements.
InitElem ==
  /\ pc = "un_request"
  /\ llama_parse_api_key = FALSE
  /\ unstructured_api_key = TRUE
  /\ file_url \in BOOLEAN
  /\ scan = NotRead
  /\ is_scanned = FALSE
  /\ attempt = 1 /\ backoff = 0 /\ job = 0 /\ polls = 0 /\ waited = 0
  /\ last_poll = NoPoll
  /\ attempt_out = Pending
  /\ un_response = NoResponse
  /\ un_sent = "none"
  /\ ocr_in = NotRead /\ mu_in = NotRead /\ basic_in = NotRead
  /\ ret = None /\ producer = "none" /\ escaped = FALSE /\ in_handler = FALSE
  /\ calls = <<"scan", "unstructured">>
  /\ contacted = {}
  /\ outcome = [llama |-> Pending, unstructured |-> Pending]
  /\ first = NoCall
  /\ endpoint = NoEndpoint

NextElem ==
  \/ UnstructuredRequest(Responses(ElementLists \cup ElementSamples))
  \/ UnstructuredRetry
  \/ UnstructuredHandle
  \/ PyMuPDF(MuSamples)
  \/ Basic(BasicOutcomes)

SpecElem == InitElem /\ [][NextElem]_vars

\* The detector taken alone: documents of up to MaxScanPages pages whose
\* texts sit on both sides of the limit of 100 characters, page by page and
\* summed.
ScanBoundaryTexts ==
  ScanTexts \cup { <<Run("a", 50)>>, <<Run("\n", 2), Run("a", 49), Run(" ", 1)>> }
ScanBoundarySamples == [text : ScanBoundaryTexts, images : {0, 1}]
ScanBoundaryOutcomes(n) ==
  {Failed} \cup {Read(p) : p \in SeqsUpTo(ScanBoundarySamples, n)}

\* the keys and the URL play no part before the branch of line 35
InitScan == Init /\ ~file_url /\ ~unstructured_api_key

NextScan ==
  \/ Detect(ScanBoundaryOutcomes(MaxScanPages))
  \/ Route

SpecScan == InitScan /\ [][NextScan]_vars

\* ------------------------------------------------------------------- claims
Invoked(stage) == \E i \in 1..Len(calls) : calls[i] = stage
IndexOf(stage) == CHOOSE i \in 1..Len(calls) : calls[i] = stage
Classified == pc \notin {"start", "classified"}
LocalStages == {"ocr", "pymupdf", "basic"}

C1_Safe ==
  /\ ~escaped
  /\ pc = "done" => ret.tag = "str"
  /\ pc # "done" => ENABLED Next

\* C1: every call of parse_document ends, and ends by returning a text
\* string; no exception leaves it, whatever the keys and whatever the
\* detector, the remote parsers and the local extractors answer.
C1_AlwaysReturnsText == []C1_Safe /\ <>(pc = "done")

\* C1 witness: both remote stages raised, PyMuPDF and PyPDF2 failed, and the
\* call still returned the failure text.
C1_Witness ==
  /\ pc = "done"
  /\ outcome.llama = Raise /\ outcome.unstructured = Raise
  /\ mu_in = Failed /\ basic_in = Failed
  /\ ret = Str(FailureString)

LlamaReturned(v) == outcome.llama = Return(v)

C3_ReturnedAtOnce ==
  /\ ~is_scanned /\ llama_parse_api_key
  /\ pc = "done"
  /\ ret = outcome.llama.val
  /\ producer = "llama"
  /\ calls = <<"scan", "llama">>
  /\ contacted = {"llama"}
  /\ outcome.unstructured = Pending
  /\ mu_in = NotRead /\ basic_in = NotRead

\* C3 as stated: whenever the layout parser returns a text, the empty string
\* included, the call returns exactly that text at once and invokes no
\* later stage.
C3_Original ==
  (outcome.llama.kind = "return" /\ outcome.llama.val.tag = "str") => C3_ReturnedAtOnce

\* C3 amended: whenever the layout parser returns a non-empty text, the call
\* returns exactly that text at once and invokes no later stage; an empty
\* text is treated like "no result" and the chain goes on.
C3_Amended ==
  /\ (outcome.llama.kind = "return" /\ Truthy(outcome.llama.val)) => C3_ReturnedAtOnce
  /\ LlamaReturned(Str(<< >>)) =>
       /\ producer # "llama"
       /\ pc # "done" \/ Len(calls) > 2

\* C3 witness: with the element key set too, the layout parser's blank but
\* non-empty text is what the call returned.
C3_Witness ==
  /\ pc = "done" /\ unstructured_api_key
  /\ LlamaReturned(Str(<<" ">>))
  /\ ret = Str(<<" ">>)

\* C4: an exception of a remote stage (after its retries) does not leave
\* parse_document: the next stage of the chain runs, and the value returned
\* comes from a later stage.
C4_RemoteExceptionFallsThrough ==
  /\ outcome.llama = Raise =>
       /\ ~escaped /\ ~in_handler
       /\ pc # "done" \/ producer \in {"unstructured", "pymupdf", "basic"}
       /\ Len(calls) = 2 => pc \in {"un_gate", "pymupdf"}
       /\ Len(calls) > 2 =>
            calls[3] = IF unstructured_api_key THEN "unstructured" ELSE "pymupdf"
  /\ outcome.unstructured = Raise =>
       /\ ~escaped /\ ~in_handler
       /\ pc # "done" \/ producer \in {"pymupdf", "basic"}
       /\ Len(calls) = IndexOf("unstructured") => pc = "pymupdf"
       /\ Len(calls) > IndexOf("unstructured") =>
            calls[IndexOf("unstructured") + 1] = "pymupdf"

\* C4 witness: both remote stages raised and the structural extractor's text
\* was returned.
C4_Witness ==
  /\ pc = "done"
  /\ outcome.llama = Raise /\ outcome.unstructured = Raise
  /\ producer = "pymupdf"
  /\ calls = <<"scan", "llama", "unstructured", "pymupdf">>

\* C5: a remote stage without its key is never invoked nor contacted, and
\* the call goes on with the next stage as if nothing had happened.
C5_NoKeyNoStage ==
  /\ ~llama_parse_api_key =>
       /\ ~Invoked("llama") /\ "llama" \notin contacted /\ outcome.llama = Pending
       /\ pc \notin {"llama_upload", "llama_loop", "llama_poll",
                     "llama_attempt_done", "llama_ret"}
       /\ (~is_scanned /\ Len(calls) >= 2) =>
            calls[2] = IF unstructured_api_key THEN "unstructured" ELSE "pymupdf"
  /\ ~unstructured_api_key =>
       /\ ~Invoked("unstructured") /\ "unstructured" \notin contacted
       /\ outcome.unstructured = Pending /\ un_sent = "none"
       /\ pc \notin {"un_request", "un_attempt_done", "un_ret"}
       /\ (Invoked("llama") /\ Len(calls) >= 3) => calls[3] = "pymupdf"
  /\ ~escaped /\ ~in_handler

\* C5 witness: no key at all, a non-scanned document, the structural text
\* returned.
C5_Witness ==
  /\ pc = "done" /\ ~is_scanned
  /\ ~llama_parse_api_key /\ ~unstructured_api_key
  /\ calls = <<"scan", "pymupdf">>
  /\ producer = "pymupdf"

\* C6: a non-scanned document, no key set, the structural extractor
\* succeeding with non-empty text: the call returns that text unchanged and
\* no remote stage was invoked.
C6_StructuralTextUnchanged ==
  ( /\ pc = "done" /\ ~is_scanned
    /\ ~llama_parse_api_key /\ ~unstructured_api_key
    /\ mu_in.ok
    /\ extract_with_pymupdf(mu_in).val.val # << >> ) =>
     /\ ret = extract_with_pymupdf(mu_in).val
     /\ producer = "pymupdf"
     /\ calls = <<"scan", "pymupdf">>
     /\ contacted = {}
     /\ outcome.llama = Pending /\ outcome.unstructured = Pending
     /\ mu_in = Read(<<[text |-> <<" ", "a">>, tables |-> << >>]>>) =>
          ret = Str(<<"--- Page ", "1", " ---", "\n", "a">>)

\* C6 witness: such a call, returning the one page's section.
C6_Witness ==
  /\ pc = "done" /\ ~is_scanned
  /\ ~llama_parse_api_key /\ ~unstructured_api_key
  /\ mu_in = Read(<<[text |-> <<" ", "a">>, tables |-> << >>]>>)
  /\ ret = Str(<<"--- Page ", "1", " ---", "\n", "a">>)

InLlamaAttempt ==
  pc \in {"llama_loop", "llama_poll", "llama_attempt_done", "llama_ret"} /\ job # 0

\* a 202 answer, or a 200 answer whose JSON object reports no SUCCESS
NotYetSuccess(r) ==
  /\ r.ok
  /\ r.status_code \in {200, 202}
  /\ r.status_code = 200 =>
       (r.body # Malformed /\ Get(r.body, "status", "None") # "SUCCESS")

\* a 200 or 202 answer that reports no SUCCESS, readable or not
WithoutSuccess(r) ==
  /\ r.ok
  /\ r.status_code \in {200, 202}
  /\ r.status_code = 200 =>
       (r.body = Malformed \/ Get(r.body, "status", "None") # "SUCCESS")

\* C7: a job whose polls never report SUCCESS is polled at most 30 times,
\* each poll after a wait of 10, and the attempt then yields None, not an
\* exception.
C7_PollBudget ==
  /\ polls <= MaxPolls
  /\ pc = "llama_poll" => waited = PollInterval * (polls + 1)
  /\ (InLlamaAttempt /\ pc # "llama_poll") => waited = PollInterval * polls
  /\ (InLlamaAttempt /\ pc \in {"llama_attempt_done", "llama_ret"}
        /\ polls > 0 /\ NotYetSuccess(last_poll)) =>
       /\ polls = MaxPolls
       /\ attempt_out = Return(None)

\* C7 witness: 30 polls answered 202, 300 time units waited, None returned.
C7_Witness ==
  /\ pc = "llama_attempt_done"
  /\ polls = 30 /\ waited = 300
  /\ last_poll.ok /\ last_poll.status_code = 202
  /\ attempt_out = Return(None)

BreakingPoll(r) == r # NoPoll /\ r.ok /\ r.status_code \notin {200, 202}

\* C8 as stated: the first poll answered with a status code other than 200
\* and 202 ends the loop (no further poll of that job, the attempt yields
\* None); a 200 or 202 answer without SUCCESS never ends it before the 30th
\* poll.
C8_Original ==
  /\ BreakingPoll(last_poll) =>
       /\ pc \in {"llama_attempt_done", "llama_ret"}
       /\ attempt_out = Return(None)
  /\ (pc \in {"llama_attempt_done", "llama_ret"} /\ polls > 0 /\ polls < MaxPolls) =>
       ~WithoutSuccess(last_poll)

\* C8 amended: the first poll answered with a status code other than 200 and
\* 202 ends the loop (no further poll of that job, the attempt yields None);
\* a 202 answer, or a 200 answer whose body is a JSON object without SUCCESS,
\* never ends it before the 30th poll; a 200 answer whose body cannot be
\* read raises and ends the attempt.
C8_EarlyBreak ==
  /\ [](/\ BreakingPoll(last_poll) =>
             /\ pc \in {"llama_attempt_done", "llama_ret"}
             /\ attempt_out = Return(None)
        /\ (pc \in {"llama_loop", "llama_poll"} /\ polls > 0) => NotYetSuccess(last_poll)
        /\ (pc \in {"llama_attempt_done", "llama_ret"} /\ polls > 0
              /\ polls < MaxPolls) => ~NotYetSuccess(last_poll)
        /\ (last_poll.ok /\ last_poll.status_code = 200 /\ last_poll.body = Malformed) =>
             (pc \in {"llama_attempt_done", "llama_ret"} /\ attempt_out = Raise))
  /\ [][BreakingPoll(last_poll) => (polls' <= polls /\ pc' # "llama_poll"
                                     /\ pc' # "llama_upload")]_vars

\* C8 witness: the second poll answered 404 and the attempt ended with None.
C8_Witness ==
  /\ pc = "llama_attempt_done"
  /\ polls = 2 /\ last_poll.ok /\ last_poll.status_code = 404
  /\ attempt_out = Return(None)

AttemptDone == pc \in {"llama_attempt_done", "un_attempt_done"}
Handed == pc \in {"llama_ret", "un_ret"}

\* C9: a remote parser call makes at most 3 attempts; a new attempt starts
\* only after the previous one raised (a returned text or None ends the call);
\* an exception reaches parse_document only when the third attempt raised.
C9_RetryPolicy ==
  /\ [](/\ attempt <= MaxAttempts
        /\ (Handed /\ attempt_out = Raise) => attempt = MaxAttempts
        /\ Handed => attempt_out.kind \in {"return", "raise"})
  /\ [][(attempt >= 1 /\ attempt' = attempt + 1) =>
          (AttemptDone /\ attempt_out = Raise)]_vars
  /\ [][(AttemptDone /\ attempt_out.kind = "return") =>
          (Handed' /\ attempt' = attempt /\ attempt_out' = attempt_out)]_vars
  /\ [][(outcome.llama = Pending /\ outcome'.llama = Raise) =>
          (attempt = MaxAttempts /\ contacted' = contacted)]_vars
  /\ [][(outcome.unstructured = Pending /\ outcome'.unstructured = Raise) =>
          (attempt = MaxAttempts /\ contacted' = contacted)]_vars

\* C9 witness: the third attempt of the layout parser raised and the
\* exception is handed to parse_document.
C9_Witness ==
  /\ pc = "llama_ret"
  /\ attempt = 3 /\ attempt_out = Raise

\* The elements kept, stated on the list as a whole.
TrimOf(t) ==
  LET ix == {i \in 1..Len(t) : t[i] \notin {" ", "\n", "\t"}}
  IN IF ix = {} THEN << >>
     ELSE SubSeq(t, CHOOSE i \in ix : \A j \in ix : i <= j,
                    CHOOSE i \in ix : \A j \in ix : i >= j)
Survives(e) ==
  /\ "type" \in DOMAIN e /\ e.type \in {"Title", "NarrativeText", "ListItem", "Table"}
  /\ "text" \in DOMAIN e /\ TrimOf(e.text) # << >>
RECURSIVE Flatten(_)
Flatten(blocks) ==
  IF Len(blocks) = 1 THEN blocks[1]
  ELSE blocks[1] \o <<"\n", "\n">> \o Flatten(Tail(blocks))
ExpectedElementText(elements) ==
  LET kept == SelectSeq(elements, Survives)
  IN IF kept = << >> THEN None
     ELSE Str(Flatten([i \in 1..Len(kept) |-> TrimOf(kept[i].text)]))

\* C10: the element parser's result is the trimmed texts of the elements of
\* an allowed type with non-blank text, in their order, joined by a blank
\* line; None, never the empty string, when no element survives.
C10_ElementText ==
  (pc \in {"un_attempt_done", "un_ret"} /\ un_response.ok) =>
     /\ attempt_out = Return(ExpectedElementText(un_response.elements))
     /\ attempt_out # Return(Str(<< >>))
     /\ (\A i \in 1..Len(un_response.elements) :
            Get(un_response.elements[i], "type", "None") = "Image") =>
          attempt_out = Return(None)

\* C10 witness: an Image element dropped between two kept ones, both trimmed.
C10_Witness ==
  /\ pc = "un_attempt_done"
  /\ un_response.ok
  /\ un_response.elements =
       <<[type |-> "Title", text |-> <<" ", "a">>], [type |-> "Image", text |-> <<"a">>],
         [type |-> "ListItem", text |-> <<"a", " ", "a">>]>>
  /\ attempt_out = Return(Str(<<"a", "\n", "\n", "a", " ", "a">>))

\* The sections of the pages with non-blank text, by the page's position.
SectionOf(n, t) == <<"--- Page ", ToString(n), " ---", "\n">> \o TrimOf(t)
ExpectedSections(pages) ==
  LET kept == {i \in 1..Len(pages) : TrimOf(pages[i]) # << >>}
      nth(k) == CHOOSE i \in kept : Cardinality({j \in kept : j <= i}) = k
  IN IF kept = {} THEN << >>
     ELSE Flatten([k \in 1..Cardinality(kept) |-> SectionOf(nth(k), pages[nth(k)])])

\* C11: when OCR raises nothing, the text returned is made of one section
\* "--- Page N ---\n<trimmed text>" per page with non-blank OCR text, N the
\* page's 1-based position, in page order, joined by a blank line; pages with
\* blank text add nothing.  OCR texts "a" and "" give "--- Page 1 ---\na".
C11_OcrSections ==
  ocr_in.ok =>
     /\ pc = "done" /\ producer = "ocr"
     /\ calls = <<"scan", "ocr">>
     /\ ret = Str(ExpectedSections(ocr_in.pages))
     /\ ocr_in.pages = << <<"a">>, << >> >> =>
          ret = Str(<<"--- Page ", "1", " ---", "\n", "a">>)

\* C11 witness: a blank first page and a second page with text: one section,
\* numbered 2.
C11_Witness ==
  /\ pc = "done" /\ is_scanned
  /\ ocr_in = Read(<< <<" ">>, <<" ", "a">> >>)
  /\ ret = Str(<<"--- Page ", "2", " ---", "\n", "a">>)

\* C12: when rasterization or OCR raises, the OCR extractor raises nothing:
\* the structural extractor is invoked next and the call returns what it
\* (with its own fallback) returns; when OCR succeeds with blank text on every
\* page, no fallback is invoked and the empty string is returned.
C12_OcrFallback ==
  /\ ocr_in = Failed =>
       /\ ~escaped /\ ~in_handler
       /\ calls[2] = "ocr"
       /\ Len(calls) = 2 => pc = "pymupdf"
       /\ Len(calls) > 2 => calls[3] = "pymupdf"
       /\ pc = "done" =>
            /\ producer \in {"pymupdf", "basic"}
            /\ mu_in.ok => (producer = "pymupdf" /\ ret = extract_with_pymupdf(mu_in).val)
  /\ (ocr_in.ok /\ \A i \in 1..Len(ocr_in.pages) : TrimOf(ocr_in.pages[i]) = << >>) =>
       /\ pc = "done" /\ producer = "ocr"
       /\ ret = Str(<< >>)
       /\ calls = <<"scan", "ocr">>
       /\ mu_in = NotRead /\ basic_in = NotRead

\* C12 witness: OCR raised and the structural extractor's section was returned.
C12_Witness ==
  /\ pc = "done" /\ is_scanned
  /\ ocr_in = Failed
  /\ calls = <<"scan", "ocr", "pymupdf">>
  /\ producer = "pymupdf"
  /\ ret = Str(<<"--- Page ", "1", " ---", "\n", "a">>)

\* C13: when the structural extractor fails as a whole it raises nothing: the
\* raw fallback extractor is invoked next and the call returns its output.
C13_StructuralFallback ==
  mu_in = Failed =>
     /\ ~escaped /\ ~in_handler
     /\ calls[Len(calls)] \in {"pymupdf", "basic"}
     /\ calls[Len(calls)] = "pymupdf" => pc = "basic"
     /\ calls[Len(calls)] = "basic" =>
          /\ calls[Len(calls) - 1] = "pymupdf"
          /\ pc = "done" /\ producer = "basic"
          /\ basic_in # NotRead
          /\ ret = basic_text_extraction(basic_in).val

\* C13 witness: a non-scanned document, PyMuPDF failing, the raw text returned.
C13_Witness ==
  /\ pc = "done" /\ ~is_scanned
  /\ mu_in = Failed
  /\ basic_in = Read(<< <<"a">> >>)
  /\ producer = "basic" /\ ret = Str(<<"a">>)

\* The pages' texts with a newline between them.
RECURSIVE Lines(_)
Lines(pages) ==
  IF Len(pages) = 0 THEN << >>
  ELSE IF Len(pages) = 1 THEN pages[1]
  ELSE Lines(SubSeq(pages, 1, Len(pages) - 1)) \o <<"\n">> \o pages[Len(pages)]

\* C14: the raw fallback extractor never raises: when the pages are read it
\* returns their texts put together with newlines and trimmed, and when
\* anything in it fails it returns the failure string.
C14_RawNeverRaises ==
  /\ ~escaped
  /\ basic_in # NotRead =>
       /\ pc = "done" /\ producer = "basic"
       /\ ret.tag = "str"
       /\ basic_in.ok => ret = Str(TrimOf(Lines(basic_in.pages)))
       /\ ~basic_in.ok => ret = Str(<<"Failed to extract text from document: ", "<error>">>)

\* C14 witness: two pages " a" and "a " returned as "a\na".
C14_Witness ==
  /\ pc = "done" /\ producer = "basic"
  /\ basic_in = Read(<< <<" ", "a">>, <<"a", " ">> >>)
  /\ ret = Str(<<"a", "\n", "a">>)

\* The characters of a page between its first and last non-blank one.
RECURSIVE RunSum(_, _, _)
RunSum(t, from, to) == IF from > to THEN 0 ELSE t[from].n + RunSum(t, from + 1, to)
Chars(t) ==
  LET ix == {i \in 1..Len(t) : t[i].ch \notin {" ", "\n", "\t"} /\ t[i].n > 0}
  IN IF ix = {} THEN 0
     ELSE RunSum(t, CHOOSE i \in ix : \A j \in ix : i <= j,
                    CHOOSE i \in ix : \A j \in ix : i >= j)
EarlyPages(pages) == SubSeq(pages, 1, IF Len(pages) < 3 THEN Len(pages) ELSE 3)
RECURSIVE EarlyChars(_)
EarlyChars(pages) ==
  IF pages = << >> THEN 0 ELSE Chars(Head(pages).text) + EarlyChars(Tail(pages))
RECURSIVE EarlyImages(_)
EarlyImages(pages) ==
  IF pages = << >> THEN 0 ELSE Head(pages).images + EarlyImages(Tail(pages))

\* C15: the detector answers true exactly when, over the first min(3, pages)
\* pages, the characters sum to less than 100 and the images to more than 0:
\* false with 100 characters or more there, true with no character and an
\* image there, and the same whatever the pages after the third hold.
C15_ScanRule ==
  (pc = "classified" /\ scan.ok) =>
     LET early == EarlyPages(scan.pages)
     IN /\ is_scanned <=> (EarlyChars(early) < 100 /\ EarlyImages(early) > 0)
        /\ EarlyChars(early) >= 100 => ~is_scanned
        /\ (EarlyChars(early) = 0 /\ EarlyImages(early) >= 1) => is_scanned
        /\ \A later \in ScanBoundarySamples :
             is_scanned = is_scanned_document(Read(Append(early, later)))
                \/ Len(early) < 3

\* C15 witness: 99 characters and one image on the first three pages, a
\* fourth page of 100 characters, classified as scanned.
C15_Witness ==
  /\ pc = "classified" /\ is_scanned
  /\ scan = Read(<< [text |-> <<Run("a", 50)>>, images |-> 0],
                    [text |-> <<Run("\n", 2), Run("a", 49), Run(" ", 1)>>, images |-> 1],
                    [text |-> << >>, images |-> 0],
                    [text |-> <<Run("a", 100)>>, images |-> 1] >>)

\* C16: the detector never raises: when reading the document fails it
\* answers false, the call goes on with the non-scanned path and the OCR
\* extractor is not invoked.
C16_DetectorNeverRaises ==
  /\ [](/\ (pc = "classified" /\ ~scan.ok) => ~is_scanned
        /\ ~is_scanned => (pc # "ocr" /\ ~Invoked("ocr") /\ ocr_in = NotRead)
        /\ ~escaped /\ ~in_handler
        /\ Len(calls) >= 1 => calls[1] = "scan")
  /\ [][(pc = "classified" /\ ~scan.ok) => pc' = "llama_gate"]_vars

\* C16 witness: the detector failed on the document and answered false.
C16_Witness ==
  /\ pc = "classified"
  /\ scan = Failed
  /\ ~is_scanned
  /\ calls = <<"scan">>

\* C17: when the call is cancelled while the layout parser waits in or
\* between polls, no further poll is sent for the job, no new attempt starts,
\* no later stage runs, and the call ends with the cancellation, not a text.
C17_CancelStopsPolling ==
  /\ [](/\ attempt_out = Cancelled => pc \in {"llama_attempt_done", "llama_ret"}
        /\ outcome.llama = Cancelled =>
             /\ pc = "done" /\ escaped
             /\ ret = None /\ producer = "none"
             /\ calls = <<"scan", "llama">>
             /\ outcome.unstructured = Pending
             /\ mu_in = NotRead /\ basic_in = NotRead)
  /\ [][attempt_out = Cancelled =>
          /\ polls' <= polls
          /\ attempt' <= attempt
          /\ contacted' = contacted
          /\ calls' = calls
          /\ pc' \in {"llama_attempt_done", "llama_ret", "done"}]_vars

\* C17 witness: cancelled in the second attempt after two polls, the
\* cancellation handed to parse_document.
C17_Witness ==
  /\ pc = "llama_ret"
  /\ attempt_out = Cancelled
  /\ attempt = 2 /\ polls = 2

Rank(stage) ==
  CASE stage = "scan" -> 0
    [] stage = "ocr" -> 1
    [] stage = "llama" -> 1
    [] stage = "unstructured" -> 2
    [] stage = "pymupdf" -> 3
    [] stage = "basic" -> 4
Extractors == {"ocr", "llama", "unstructured", "pymupdf", "basic"}
KeyOf(stage) == IF stage = "llama" THEN llama_parse_api_key ELSE unstructured_api_key
Started(stage) == Invoked(stage) \/ (stage \in {"ocr", "pymupdf", "basic"} /\ pc = stage)
Running(stage) ==
  IF stage \in {"llama", "unstructured"}
  THEN Invoked(stage) /\ outcome[stage] = Pending
  ELSE pc = stage
\* the stage had no key, or ended without a non-empty text
Unusable(stage) ==
  \/ ~KeyOf(stage) /\ ~Invoked(stage)
  \/ /\ outcome[stage] # Pending
     /\ ~(outcome[stage].kind = "return" /\ outcome[stage].val.tag = "str"
            /\ outcome[stage].val.val # << >>)

\* C18: within one call the stages run one after another, never two at
\* once; the detector ends before any extractor starts; on the non-scanned
\* path a stage of the order layout parser, element parser, structural
\* extractor, raw fallback starts only after every stage before it had no key
\* or ended without a usable result.
C18_Sequential ==
  /\ Cardinality({st \in Extractors : Running(st)}) <= 1
  /\ \A i, j \in 1..Len(calls) : i < j => Rank(calls[i]) < Rank(calls[j])
  /\ (\E st \in Extractors : Started(st)) =>
       (calls[1] = "scan" /\ pc \notin {"start", "classified"})
  /\ pc \in {"start", "classified"} =>
       (contacted = {} /\ ocr_in = NotRead /\ mu_in = NotRead /\ basic_in = NotRead)
  /\ ~is_scanned =>
       /\ Started("unstructured") => Unusable("llama")
       /\ Started("pymupdf") => (Unusable("llama") /\ Unusable("unstructured"))
       /\ Started("basic") =>
            (Unusable("llama") /\ Unusable("unstructured") /\ mu_in = Failed)

\* C18 witness: every stage of the non-scanned path ran, each after the one
\* before it ended without a usable result.
C18_Witness ==
  /\ pc = "done"
  /\ calls = <<"scan", "llama", "unstructured", "pymupdf", "basic">>
  /\ outcome.llama = Return(None) /\ outcome.unstructured = Return(None)
  /\ mu_in = Failed

\* both calls got the same answers from every collaborator both of them asked
SameResponses ==
  /\ is_scanned = first.is_scanned
  /\ (outcome.llama # Pending /\ first.outcome.llama # Pending) =>
       outcome.llama = first.outcome.llama
  /\ (outcome.unstructured # Pending /\ first.outcome.unstructured # Pending) =>
       outcome.unstructured = first.outcome.unstructured
  /\ (ocr_in # NotRead /\ first.ocr_in # NotRead) => ocr_in = first.ocr_in
  /\ (mu_in # NotRead /\ first.mu_in # NotRead) => mu_in = first.mu_in
  /\ (basic_in # NotRead /\ first.basic_in # NotRead) => basic_in = first.basic_in

\* C19: a second call with the same bytes, keys and collaborator answers
\* invokes the same stages, returns the text of the same stage and, with it,
\* the same text; the second call starts from what a first call starts from,
\* and no call changes the parser's keys.
C19_Idempotent ==
  /\ [](/\ (first # NoCall /\ pc = "done" /\ SameResponses) =>
             /\ calls = first.calls
             /\ producer = first.producer
             /\ ret = first.ret
        /\ (first # NoCall /\ pc = "start") =>
             /\ is_scanned = FALSE /\ scan = NotRead
             /\ attempt = 0 /\ attempt_out = Pending /\ in_handler = FALSE
             /\ calls = << >> /\ contacted = {})
  /\ [][config' = config]_vars

\* C19 witness: both calls fell back from a failing layout parser to the
\* structural extractor and returned the same section.
C19_Witness ==
  /\ first # NoCall /\ pc = "done"
  /\ first.outcome.llama = Raise /\ outcome.llama = Raise
  /\ first.producer = "pymupdf" /\ producer = "pymupdf"
  /\ first.ret = Str(<<"--- Page ", "1", " ---", "\n", "a">>)
  /\ ret = first.ret

\* C20 as stated: when summarize-report is given the id of a stored PDF, the
\* call of parse_document has run to its end before the text is handed to
\* the summarization step, and the text handed is the text it returned.
C20_Original ==
  ( /\ endpoint.op = "summarize_report"
    /\ endpoint.document_id /\ endpoint.pdf
    /\ endpoint.handed # None ) =>
     /\ pc = "done"
     /\ endpoint.handed = ret

\* C21: when a URL was passed, every request of the element parser's call,
\* the retried ones included, carries the URL and never the file; the file is
\* sent only when no URL was passed.
C21_UrlInsteadOfBytes ==
  /\ [](/\ file_url => un_sent \in {"none", "url"}
        /\ ~file_url => un_sent \in {"none", "files"}
        /\ "unstructured" \in contacted => un_sent # "none")
  /\ [][(pc = "un_request" /\ pc' # pc) =>
          (un_sent' = IF file_url THEN "url" ELSE "files")]_vars

\* C21 witness: the third request of a call that was given a URL carried it.
C21_Witness ==
  /\ pc = "un_attempt_done"
  /\ attempt = 3
  /\ file_url /\ un_sent = "url"

\* a poll that failed: the get raised, the body could not be read, or the
\* status code was neither 200 nor 202
FailedPoll(r) ==
  /\ r # NoPoll
  /\ \/ ~r.ok
     \/ r.status_code \notin {200, 202}
     \/ r.status_code = 200 /\ r.body = Malformed

\* C22: a poll that fails inside an attempt of the layout parser is not
\* tried again: it ends the attempt's polling loop, and the job of that
\* attempt is never polled again (a later attempt uploads anew and polls its
\* own job).
C22_PollFailureEndsLoop ==
  /\ [](/\ FailedPoll(last_poll) => pc \in {"llama_attempt_done", "llama_ret"}
        /\ pc \in {"llama_loop", "llama_poll"} => (job = attempt /\ job # 0))
  /\ [][FailedPoll(last_poll) =>
          /\ polls' <= polls
          /\ pc' \notin {"llama_loop", "llama_poll"}
          /\ job' \in {job, 0}
          /\ attempt' = attempt \/ attempt' = attempt + 1 \/ attempt' = 0]_vars
  /\ [][(job # 0 /\ job' # job) => (job' = 0 \/ job' > job)]_vars

\* C22 witness: the get of the second poll raised and the attempt ended with
\* the exception.
C22_Witness ==
  /\ pc = "llama_attempt_done"
  /\ polls = 2
  /\ last_poll # NoPoll /\ ~last_poll.ok
  /\ attempt_out = Raise

\* A table the extractor can render: extract() answers rows and no cell is
\* None.
Extractable(t) ==
  /\ t.ok /\ Len(t.data) > 0
  /\ \A r \in 1..Len(t.data) : \A c \in 1..Len(t.data[r]) : t.data[r][c] # None
RECURSIVE Tabbed(_)
Tabbed(row) ==
  IF Len(row) = 1 THEN row[1].val
  ELSE Tabbed(SubSeq(row, 1, Len(row) - 1)) \o <<"\t">> \o row[Len(row)].val
RowLines(t) ==
  LET ix == {r \in 1..Len(t.data) : Len(t.data[r]) > 0}
      nth(k) == CHOOSE r \in ix : Cardinality({q \in ix : q <= r}) = k
  IN Lines([k \in 1..Cardinality(ix) |-> Tabbed(t.data[nth(k)])])
ExpectedBlock(t) ==
  IF Extractable(t) THEN <<"\n", "\n", "Table:", "\n">> \o RowLines(t) \o <<"\n">>
  ELSE << >>
RECURSIVE Blocks(_)
Blocks(tables) ==
  IF Len(tables) = 0 THEN << >>
  ELSE Blocks(SubSeq(tables, 1, Len(tables) - 1)) \o ExpectedBlock(tables[Len(tables)])
Combined(page) == page.text \o Blocks(page.tables)
ExpectedStructural(pages) ==
  LET kept == {i \in 1..Len(pages) : TrimOf(Combined(pages[i])) # << >>}
      nth(k) == CHOOSE i \in kept : Cardinality({j \in kept : j <= i}) = k
  IN IF kept = {} THEN << >>
     ELSE Flatten([k \in 1..Cardinality(kept) |->
                     <<"--- Page ", ToString(nth(k)), " ---", "\n">>
                       \o TrimOf(Combined(pages[nth(k)]))])
Contains(text, part) ==
  \E k \in 1..(Len(text) - Len(part) + 1) : SubSeq(text, k, k + Len(part) - 1) = part
HasRows(page) ==
  \E k \in 1..Len(page.tables) :
     /\ Extractable(page.tables[k])
     /\ \E r \in 1..Len(page.tables[k].data) : Len(page.tables[k].data[r]) > 0

\* C23: the structural extractor's text has, for a page whose plain text is
\* blank but which has an extractable table, the section "--- Page N ---"
\* whose body starts with the "Table:" label and the table's rows (cells
\* joined by tabs, rows by newlines); a page has no section exactly when its
\* text with all its table blocks is blank.
C23_TableOnlyPage ==
  mu_in.ok =>
     /\ pc = "done" /\ producer = "pymupdf"
     /\ ret = Str(ExpectedStructural(mu_in.pages))
     /\ \A i \in 1..Len(mu_in.pages) :
          /\ Contains(ret.val, <<"--- Page ", ToString(i), " ---">>)
               <=> TrimOf(Combined(mu_in.pages[i])) # << >>
          /\ (TrimOf(mu_in.pages[i].text) = << >> /\ HasRows(mu_in.pages[i])) =>
               Contains(ret.val, <<"--- Page ", ToString(i), " ---", "\n", "Table:", "\n", "a">>)

\* C23 witness: a blank first page and a second page without text whose
\* second table is read: one section, numbered 2, holding the table.
C23_Witness ==
  /\ pc = "done"
  /\ mu_in = Read(<< [text |-> <<" ">>, tables |-> << >>],
                     [text |-> << >>, tables |-> <<ExtractRaises, OneCell>>] >>)
  /\ ret = Str(<<"--- Page ", "2", " ---", "\n", "Table:", "\n", "a">>)

Fails(t) == ~t.ok \/ \E r \in 1..Len(t.data) : \E c \in 1..Len(t.data[r]) : t.data[r][c] = None
WithoutFailing(pages) ==
  [i \in 1..Len(pages) |->
     [text |-> pages[i].text,
      tables |-> SelectSeq(pages[i].tables, LAMBDA t : ~Fails(t))]]
SomeTableFails(pages) ==
  \E i \in 1..Len(pages) : \E k \in 1..Len(pages[i].tables) : Fails(pages[i].tables[k])

\* C24: when extracting or rendering a table fails, the failure is
\* swallowed: the text returned is the text the same document gives without
\* the failing tables, and the raw fallback extractor is not invoked.
C24_TableFailureSwallowed ==
  (mu_in.ok /\ SomeTableFails(mu_in.pages)) =>
     /\ pc = "done" /\ producer = "pymupdf"
     /\ ~escaped /\ ~in_handler
     /\ calls = <<"scan", "pymupdf">>
     /\ basic_in = NotRead
     /\ ret = Str(ExpectedStructural(WithoutFailing(mu_in.pages)))

\* C24 witness: a table with a None cell between two tables that are read;
\* the page's text and both other tables are in the text returned.
C24_Witness ==
  /\ pc = "done" /\ producer = "pymupdf"
  /\ mu_in = Read(<< [text |-> <<"a", " ">>,
                      tables |-> <<OneCell, NoneCell, ThreeRows>>] >>)
  /\ ret = Str(<<"--- Page ", "1", " ---", "\n", "a", " ",
                 "\n", "\n", "Table:", "\n", "a", "\n",
                 "\n", "\n", "Table:", "\n", "a", "\t", "a", "\n", "a">>)

\* C25: the raw fallback extractor is invoked only after the structural
\* extractor was invoked and failed in the same call; the except clause of
\* parse_document is never the way to it.
C25_RawOnlyAfterStructural ==
  /\ ~in_handler /\ ~escaped
  /\ (pc = "basic" \/ Invoked("basic")) =>
       /\ mu_in = Failed
       /\ Invoked("pymupdf")
       /\ \A i \in 1..Len(calls) : calls[i] = "basic" => (i > 1 /\ calls[i - 1] = "pymupdf")
       /\ pc = "basic" => calls[Len(calls)] = "pymupdf"
  /\ basic_in # NotRead => Invoked("basic")

\* C25 witness: OCR failed, the structural extractor failed after it, and
\* the raw fallback extractor is about to run.
C25_Witness ==
  /\ pc = "basic"
  /\ is_scanned
  /\ ocr_in = Failed /\ mu_in = Failed
  /\ calls = <<"scan", "ocr", "pymupdf">>

\* C26: an upload-report request whose content type is missing or is not
\* PDF, image or text is answered with status 400, and neither a storage
\* upload nor a document record is made for it.
C26_Original ==
  ( /\ endpoint.op = "upload_report"
    /\ endpoint.at = "responded"
    /\ ~ValidType(endpoint.content_type) ) =>
     /\ endpoint.status_code = 400
     /\ ~endpoint.uploaded
     /\ ~endpoint.recorded
====
